---------------------------- MODULE Spec2Model ----------------------------
(***************************************************************************)
(* A model of the n2 manifest front end: the character Scanner             *)
(* (src/src/scanner.rs) and the statement Parser (src/src/parse.rs).       *)
(*                                                                         *)
(* A byte is a one-character string; the zero sentinel is NUL.  A text     *)
(* (buffer, name, path, value) is a sequence of bytes.  The model is of    *)
(* the default build: the blocks under #[cfg(feature = "crlf")]            *)
(* (scanner.rs 36-42, 50-54, 78-83) are compiled out, so a carriage        *)
(* return is an ordinary byte for the Scanner and is handled by the        *)
(* parser's call sites.                                                    *)
(*                                                                         *)
(* A function of the parser is an operator from the parser state p to a    *)
(* result [p, tag, v]: tag "Ok" with the value v, tag "Err" with the       *)
(* ParseError v, or tag "Panic" (the process failed; p.panic says why).    *)
(***************************************************************************)
EXTENDS Integers, Sequences, FiniteSets, TLC

VARIABLES
    input,      \* what the manifest was written from (its abstract shape)
    lines,      \* the logical lines of the manifest
    eol,        \* the line ending they are joined with
    buf,        \* Scanner.buf: the sentinel-terminated buffer
    ofs,        \* Scanner.ofs
    line,       \* Scanner.line
    vars,       \* Parser.vars: the eager scope
    path_buf,   \* Parser.path_buf: the scratch buffer of read_path
    loaded,     \* the texts Loader::path was invoked with, in order
    results,    \* what the calls of Parser::read returned, in order
    steps       \* Scanner::read calls made by the last Parser::read

vars_all == <<input, lines, eol, buf, ofs, line, vars, path_buf, loaded, results, steps>>

---------------------------------------------------------------------------
(* Bytes *)

NUL == "NUL"
LF  == "\n"
CR  == "\r"
SP  == " "
TAB == "\t"
OOB == "OOB"    \* what a read outside the buffer yields (never a byte)

Lower == {"a","b","c","d","e","f","g","h","i","j","k","l","m",
          "n","o","p","q","r","s","t","u","v","w","x","y","z"}
Upper == {"A","B","C","D","E","F","G","H","I","J","K","L","M",
          "N","O","P","Q","R","S","T","U","V","W","X","Y","Z"}
Digit == {"0","1","2","3","4","5","6","7","8","9"}

\* 'a'..='z' | 'A'..='Z' | '0'..='9' | '_' | '-'
SimpleVarnameChar == Lower \cup Upper \cup Digit \cup {"_", "-"}

\* 'a'..='z' | 'A'..='Z' | '0'..='9' | '_' | '-' | '.'
IdentChar == SimpleVarnameChar \cup {"."}

is_path_char(c) == c \notin {NUL, SP, LF, CR, ":", "|", "$"}

---------------------------------------------------------------------------
(* Results *)

None    == [some |-> FALSE]
Some(x) == [some |-> TRUE, v |-> x]

Msg(text, args) == [text |-> text, args |-> args]

\* The process fails (a panic, or behaviour the language leaves undefined).
Panic(p, why) ==
    [p |-> [p EXCEPT !.panic = IF p.panic = "" THEN why ELSE p.panic],
     tag |-> "Panic", v |-> IF p.panic = "" THEN why ELSE p.panic]

Panicked(p) == p.panic # ""

\* A function returns Ok(x) or Err(e); once the process has failed, nothing
\* is returned and the result is the failure.
Ok(p, x) ==
    IF Panicked(p) THEN Panic(p, p.panic) ELSE [p |-> p, tag |-> "Ok", v |-> x]

\* Scanner::parse_error: the error carries the current offset.
parse_error(p, msg) ==
    IF Panicked(p) THEN Panic(p, p.panic)
    ELSE [p |-> p, tag |-> "Err", v |-> [msg |-> msg, ofs |-> p.ofs]]

\* A call's result, handed to what follows the call.
With(r, K(_)) == K(r)

\* A call followed by `?`: a failed call returns from the caller at once.
Try(r, K(_)) == IF r.tag = "Ok" THEN K(r) ELSE r

---------------------------------------------------------------------------
(* Scanner *)

\* A bound on the Scanner::read calls of one Parser::read: every byte is
\* read, pushed back and read again a bounded number of times.
StepLimit(b) == 4 * Len(b) + 4

Scanner_new(b) == [buf |-> b, ofs |-> 0, line |-> 1]

Scanner_slice(p, start, end) == SubSeq(p.buf, start + 1, end)

Scanner_get(p) == IF p.ofs < Len(p.buf) THEN p.buf[p.ofs + 1] ELSE OOB

Scanner_peek(p) == Scanner_get(p)

\* get_unchecked outside the buffer: undefined behaviour, reported as a
\* failure of the process wherever the parser peeks.
PeekOutside(p) == p.ofs >= Len(p.buf)

Scanner_read_FailAtSentinel(p) ==
    LET c == Scanner_get(p)
        q == [p EXCEPT !.steps = @ + 1]
    IN  IF Panicked(p) THEN [p |-> p, c |-> OOB]
        ELSE IF p.ofs >= Len(p.buf) - 1
        THEN [p |-> Panic(q, "scanned past end").p, c |-> OOB]
        ELSE [p |-> [q EXCEPT !.ofs = @ + 1,
                              !.line = IF c = LF THEN @ + 1 ELSE @],
              c |-> c]

Scanner_read(p) ==
    LET c == Scanner_get(p)
        q == [p EXCEPT !.steps = @ + 1]
    IN  CASE Panicked(p) -> [p |-> p, c |-> OOB]
          [] ~Panicked(p) /\ p.ofs >= Len(p.buf) ->
               [p |-> Panic(q, "scanned past end").p, c |-> OOB]
          [] ~Panicked(p) /\ p.ofs < Len(p.buf) /\ p.steps >= StepLimit(p.buf) ->
               [p |-> Panic(q, "step limit").p, c |-> OOB]
          [] OTHER -> [p |-> [q EXCEPT !.ofs = @ + 1,
                                 !.line = IF c = LF THEN @ + 1 ELSE @],
                       c |-> c]

Scanner_next(p) == Scanner_read(p).p

Scanner_back_KeepLine(p) ==
    IF p.ofs = 0
    THEN Panic(p, "back at start").p
    ELSE LET o == p.ofs - 1
         IN  IF p.buf[o + 1] = LF
             THEN [p EXCEPT !.ofs = IF o > 0 /\ p.buf[o] = CR THEN o - 1 ELSE o]
             ELSE [p EXCEPT !.ofs = o]

Scanner_back(p) ==
    IF p.ofs = 0
    THEN Panic(p, "back at start").p
    ELSE LET o == p.ofs - 1
         IN  IF p.buf[o + 1] = LF
             THEN [p EXCEPT !.ofs = IF o > 0 /\ p.buf[o] = CR THEN o - 1 ELSE o,
                            !.line = @ - 1]
             ELSE [p EXCEPT !.ofs = o]

Scanner_skip_NoBack(p, ch) ==
    With(Scanner_read(p), LAMBDA r : [p |-> r.p, v |-> r.c = ch])

Scanner_skip(p, ch) ==
    With(Scanner_read(p), LAMBDA r :
        IF r.c # ch
        THEN [p |-> Scanner_back(r.p), v |-> FALSE]
        ELSE [p |-> r.p, v |-> TRUE])

RECURSIVE Scanner_skip_spaces(_)
Scanner_skip_spaces(p) ==
    With(Scanner_skip(p, SP), LAMBDA r :
        IF r.v /\ ~Panicked(r.p) THEN Scanner_skip_spaces(r.p) ELSE r.p)

Scanner_expect(p, ch) ==
    With(Scanner_read(p), LAMBDA r :
        IF r.c # ch
        THEN parse_error(Scanner_back(r.p), Msg("expected, got", <<ch, r.c>>))
        ELSE Ok(r.p, <<>>))

---------------------------------------------------------------------------
(* The evaluation engine (crate::eval, outside src/): the eager scope maps *)
(* a name to a text; a lazy string is a sequence of parts; a name absent   *)
(* from every scope evaluates to the empty text.                           *)

Literal(s) == [kind |-> "Literal", s |-> s]
VarRef(s)  == [kind |-> "VarRef", s |-> s]

Vars_default == <<>>

Vars_get(vs, name) ==
    IF name \in DOMAIN vs THEN Some(vs[name]) ELSE None

Vars_insert(vs, name, val) ==
    [n \in (DOMAIN vs) \cup {name} |-> IF n = name THEN val ELSE vs[n]]

RECURSIVE EvalString_evaluate(_, _)
EvalString_evaluate(parts, scopes) ==
    IF parts = <<>> THEN <<>>
    ELSE LET part == Head(parts)
             hit  == {i \in 1..Len(scopes) : part.s \in DOMAIN scopes[i]}
             here == IF part.kind = "Literal" THEN part.s
                     ELSE IF hit = {} THEN <<>>
                     ELSE scopes[CHOOSE i \in hit : \A j \in hit : i <= j][part.s]
         IN  here \o EvalString_evaluate(Tail(parts), scopes)

LazyVars_default == <<>>

\* A later entry of the same name overwrites the earlier one.
LazyVars_insert(lv, name, val) ==
    IF \E i \in 1..Len(lv) : lv[i].key = name
    THEN [i \in 1..Len(lv) |->
            IF lv[i].key = name THEN [key |-> name, val |-> val] ELSE lv[i]]
    ELSE Append(lv, [key |-> name, val |-> val])

---------------------------------------------------------------------------
(* Loader (parse.rs 65-71); StringLoader (431-437) returns the text itself *)
(* as the path handle.  The parser state records every invocation.         *)

Loader_path(p, path) ==
    [p |-> [p EXCEPT !.loaded = Append(@, path)], v |-> path]

---------------------------------------------------------------------------
(* Parser: lexical functions *)

\* The loop of read_ident / read_simple_varname: read while the byte read
\* is in the class; the byte that ends the loop has been consumed.  r is
\* the byte read and the scanner after it.
RECURSIVE ReadWhileMatch(_, _)
ReadWhileMatch(r, class) ==
    IF r.c \in class THEN ReadWhileMatch(Scanner_read(r.p), class) ELSE r.p

ReadWhile(p, class) == ReadWhileMatch(Scanner_read(p), class)

\* After the loop: q is the scanner put back on the byte that ended it.
SliceName(start, q, failure) ==
    CASE Panicked(q) -> Panic(q, q.panic)
      [] ~Panicked(q) /\ q.ofs = start -> parse_error(q, Msg(failure, <<>>))
      [] ~Panicked(q) /\ q.ofs < start -> Panic(q, "slice: start > end")
      [] OTHER -> Ok(q, Scanner_slice(q, start, q.ofs))

ScanName(p, class, failure) ==
    SliceName(p.ofs, Scanner_back(ReadWhile(p, class)), failure)

read_ident(p) == ScanName(p, IdentChar, "failed to scan ident")

read_simple_varname_WithDot(p) ==
    ScanName(p, IdentChar, "failed to scan variable name")

read_simple_varname(p) ==
    ScanName(p, SimpleVarnameChar, "failed to scan variable name")

\* The loop of the '{' arm of read_escape.
RECURSIVE ReadBraced(_)
ReadBraced(p) ==
    With(Scanner_read(p), LAMBDA r :
        IF Panicked(r.p) THEN Panic(r.p, r.p.panic)
        ELSE CASE r.c = NUL -> parse_error(r.p, Msg("unexpected EOF", <<>>))
               [] r.c = "}" -> Ok(r.p, <<>>)
               [] OTHER     -> ReadBraced(r.p))

\* read_escape, lines 402-405: after '$' and a line-end byte, the run of
\* spaces is skipped and the escape is the empty literal.
EscapedLineEnd_KeepSpaces(p) == Ok(p, Literal(<<>>))

EscapedLineEnd(p) == Ok(Scanner_skip_spaces(p), Literal(<<>>))

read_escape_EOFArm(p) ==
    With(Scanner_read(p), LAMBDA r :
        IF Panicked(r.p) THEN Panic(r.p, r.p.panic)
        ELSE CASE r.c = NUL -> parse_error(r.p, Msg("unexpected EOF", <<>>))
               [] r.c \in {LF, CR} -> EscapedLineEnd(r.p)
               [] r.c \in {SP, "$", ":"} ->
                    Ok(r.p, Literal(Scanner_slice(r.p, r.p.ofs - 1, r.p.ofs)))
               [] r.c = "{" ->
                    LET start == r.p.ofs
                    IN  Try(ReadBraced(r.p), LAMBDA b :
                            Ok(b.p, VarRef(Scanner_slice(b.p, start, b.p.ofs - 1))))
               [] OTHER ->
                    Try(read_simple_varname(Scanner_back(r.p)), LAMBDA n :
                        Ok(n.p, VarRef(n.v))))

read_escape(p) ==
    With(Scanner_read(p), LAMBDA r :
        IF Panicked(r.p) THEN Panic(r.p, r.p.panic)
        ELSE CASE r.c \in {LF, CR} -> EscapedLineEnd(r.p)
               [] r.c \in {SP, "$", ":"} ->
                    Ok(r.p, Literal(Scanner_slice(r.p, r.p.ofs - 1, r.p.ofs)))
               [] r.c = "{" ->
                    LET start == r.p.ofs
                    IN  Try(ReadBraced(r.p), LAMBDA b :
                            Ok(b.p, VarRef(Scanner_slice(b.p, start, b.p.ofs - 1))))
               [] OTHER ->
                    Try(read_simple_varname(Scanner_back(r.p)), LAMBDA n :
                        Ok(n.p, VarRef(n.v))))

\* read_eval: the literal pending since ofs0 is pushed if it is not empty.
PushLiteral(p, parts, ofs0, end) ==
    IF end > ofs0 THEN Append(parts, Literal(Scanner_slice(p, ofs0, end)))
    ELSE parts

\* The loop of read_eval; ofs0 is the start of the pending literal, r the
\* byte read and the scanner after it.
RECURSIVE ReadEvalLoop(_, _, _)
RECURSIVE ReadEvalMatch(_, _, _)
ReadEvalMatch(r, parts, ofs0) ==
    CASE r.c = OOB -> Panic(r.p, r.p.panic)
      [] r.c = NUL -> parse_error(r.p, Msg("unexpected EOF", <<>>))
      [] r.c = LF  -> Ok(r.p, PushLiteral(r.p, parts, ofs0, r.p.ofs - 1))
      [] r.c = CR /\ Scanner_peek(r.p) = OOB ->
           Panic(r.p, "peek outside the buffer")
      [] r.c = CR /\ Scanner_peek(r.p) = LF ->
           With(Scanner_next(r.p), LAMBDA t :
               Ok(t, PushLiteral(t, parts, ofs0, t.ofs - 2)))
      [] r.c = "$" ->
           Try(read_escape(r.p), LAMBDA e :
               ReadEvalLoop(e.p,
                            Append(PushLiteral(r.p, parts, ofs0, r.p.ofs - 1), e.v),
                            e.p.ofs))
      [] OTHER -> ReadEvalMatch(Scanner_read(r.p), parts, ofs0)

ReadEvalLoop(p, parts, ofs0) == ReadEvalMatch(Scanner_read(p), parts, ofs0)

read_eval(p) == ReadEvalLoop(p, <<>>, p.ofs)

read_vardef(p) ==
    Try(Scanner_expect(Scanner_skip_spaces(p), "="), LAMBDA e :
        read_eval(Scanner_skip_spaces(e.p)))

\* read_path, lines 334-341: what an escape adds to the scratch buffer; a
\* reference adds the value of its name in the eager scope, if it has one.
PathPart_NoLookup(p, part) ==
    IF part.kind = "Literal" THEN [p EXCEPT !.path_buf = @ \o part.s] ELSE p

PathPart(p, part) ==
    IF part.kind = "Literal"
    THEN [p EXCEPT !.path_buf = @ \o part.s]
    ELSE LET g == Vars_get(p.vars, part.s)
         IN  IF g.some THEN [p EXCEPT !.path_buf = @ \o g.v] ELSE p

\* The loop of read_path, on the cleared scratch buffer; r is the byte read
\* and the scanner after it.
RECURSIVE ReadPathLoop(_)
RECURSIVE ReadPathMatch(_)
ReadPathMatch(r) ==
    CASE r.c = OOB -> Panic(r.p, r.p.panic)
      [] r.c # OOB /\ is_path_char(r.c) ->
           ReadPathMatch(Scanner_read([r.p EXCEPT !.path_buf = Append(@, r.c)]))
      [] r.c = NUL ->
           parse_error(Scanner_back(r.p), Msg("unexpected EOF", <<>>))
      [] r.c = "$" ->
           Try(read_escape(r.p), LAMBDA e : ReadPathLoop(PathPart(e.p, e.v)))
      [] r.c \in {":", "|", SP, LF, CR} -> Ok(Scanner_back(r.p), <<>>)
      [] OTHER ->
           parse_error(Scanner_back(r.p), Msg("unexpected character", <<r.c>>))

ReadPathLoop(p) == ReadPathMatch(Scanner_read(p))

read_path_NoClear(p) ==
    Try(ReadPathLoop(p), LAMBDA l :
        IF l.p.path_buf = <<>> THEN Ok(l.p, None)
        ELSE With(Loader_path(l.p, l.p.path_buf), LAMBDA h : Ok(h.p, Some(h.v))))

read_path(p) ==
    Try(ReadPathLoop([p EXCEPT !.path_buf = <<>>]), LAMBDA l :
        IF l.p.path_buf = <<>> THEN Ok(l.p, None)
        ELSE With(Loader_path(l.p, l.p.path_buf), LAMBDA h : Ok(h.p, Some(h.v))))

\* The while-let loop of read_paths_to and of read_default.
RECURSIVE ReadPathsLoop(_, _)
ReadPathsLoop(p, v) ==
    Try(read_path(p), LAMBDA r :
        IF ~r.v.some THEN Ok(r.p, v)
        ELSE ReadPathsLoop(Scanner_skip_spaces(r.p), Append(v, r.v.v)))

read_paths_to(p, v) == ReadPathsLoop(Scanner_skip_spaces(p), v)

---------------------------------------------------------------------------
(* Parser: statements *)

Text_rule     == <<"r","u","l","e">>
Text_build    == <<"b","u","i","l","d">>
Text_default  == <<"d","e","f","a","u","l","t">>
Text_include  == <<"i","n","c","l","u","d","e">>
Text_subninja == <<"s","u","b","n","i","n","j","a">>
Text_pool     == <<"p","o","o","l">>
Text_depth    == <<"d","e","p","t","h">>

\* The while loop of read_scoped_vars.
RECURSIVE ReadScopedLoop(_, _)
ReadScopedLoop(p, lv) ==
    IF Panicked(p) THEN Panic(p, p.panic)
    ELSE CASE Scanner_peek(p) = OOB -> Panic(p, "peek outside the buffer")
           [] Scanner_peek(p) = SP ->
                Try(read_ident(Scanner_skip_spaces(p)), LAMBDA n :
                Try(read_vardef(Scanner_skip_spaces(n.p)), LAMBDA d :
                    ReadScopedLoop(d.p, LazyVars_insert(lv, n.v, d.v))))
           [] OTHER -> Ok(p, lv)

read_scoped_vars_Eager(p) ==
    Try(ReadScopedLoop(p, LazyVars_default), LAMBDA s :
        IF s.v = <<>> THEN s
        ELSE Ok([s.p EXCEPT !.vars =
                    Vars_insert(@, s.v[1].key,
                                EvalString_evaluate(s.v[1].val, <<s.p.vars>>))],
                s.v))

read_scoped_vars(p) == ReadScopedLoop(p, LazyVars_default)

\* skip('\r'); expect('\n')
EndOfLine(p) == Scanner_expect(Scanner_skip(p, CR).p, LF)

\* The header shared by read_rule and read_pool: name, line end, block.
ReadNamedBlock(p) ==
    Try(read_ident(p), LAMBDA n :
    Try(EndOfLine(n.p), LAMBDA e :
    Try(read_scoped_vars(e.p), LAMBDA s :
        Ok(s.p, [name |-> n.v, vars |-> s.v]))))

read_rule(p) ==
    Try(ReadNamedBlock(p), LAMBDA b :
        Ok(b.p, [kind |-> "Rule", name |-> b.v.name, vars |-> b.v.vars]))

\* str::parse::<usize>: an optional '+', then one or more decimal digits.
DigitText == <<"0","1","2","3","4","5","6","7","8","9">>

DigitValue(c) == CHOOSE n \in 0..9 : DigitText[n + 1] = c

RECURSIVE DecimalValue(_, _)
DecimalValue(s, acc) ==
    IF s = <<>> THEN acc
    ELSE DecimalValue(Tail(s), 10 * acc + DigitValue(Head(s)))

\* usize::MAX = 2^64 - 1, as decimal digits.
UsizeMaxText ==
    <<"1","8","4","4","6","7","4","4","0","7","3","7","0","9","5","5","1","6","1","5">>

RECURSIVE StripZeros(_)
StripZeros(s) == IF s # <<>> /\ Head(s) = "0" THEN StripZeros(Tail(s)) ELSE s

\* Whether the digits denote a number above usize::MAX.
ExceedsUsize(digits) ==
    LET t == StripZeros(digits)
    IN  \/ Len(t) > Len(UsizeMaxText)
        \/ /\ Len(t) = Len(UsizeMaxText)
           /\ \E i \in 1..Len(t) :
                 /\ DigitValue(t[i]) > DigitValue(UsizeMaxText[i])
                 /\ \A j \in 1..(i - 1) : t[j] = UsizeMaxText[j]

parse_usize(s) ==
    LET digits == IF s # <<>> /\ Head(s) = "+" THEN Tail(s) ELSE s
    IN  IF s = <<>> THEN [ok |-> FALSE, err |-> "empty"]
        ELSE IF digits = <<>> \/ \E i \in 1..Len(digits) : digits[i] \notin Digit
        THEN [ok |-> FALSE, err |-> "invalid digit"]
        ELSE IF ExceedsUsize(digits)
        THEN [ok |-> FALSE, err |-> "number too large"]
        ELSE [ok |-> TRUE, v |-> DecimalValue(digits, 0)]

\* The for loop of read_pool over the entries of the block.
RECURSIVE PoolDepthLoop(_, _, _)
PoolDepthLoop(p, lv, depth) ==
    IF lv = <<>> THEN Ok(p, depth)
    ELSE IF Head(lv).key = Text_depth
    THEN With(parse_usize(EvalString_evaluate(Head(lv).val, <<>>)), LAMBDA d :
             IF d.ok THEN PoolDepthLoop(p, Tail(lv), d.v)
             ELSE parse_error(p, Msg("pool depth", <<d.err>>)))
    ELSE parse_error(p, Msg("unexpected pool attribute", <<Head(lv).key>>))

read_pool_AnyAttribute(p) ==
    Try(ReadNamedBlock(p), LAMBDA b :
        Ok(b.p, [kind |-> "Pool", name |-> b.v.name, depth |-> 0]))

read_pool(p) ==
    Try(ReadNamedBlock(p), LAMBDA b :
    Try(PoolDepthLoop(b.p, b.v.vars, 0), LAMBDA d :
        Ok(d.p, [kind |-> "Pool", name |-> b.v.name, depth |-> d.v])))

read_default_EmptyList(p) ==
    Try(ReadPathsLoop(p, <<>>), LAMBDA l :
    Try(EndOfLine(l.p), LAMBDA e :
        Ok(e.p, [kind |-> "Default", paths |-> l.v])))

read_default(p) ==
    Try(ReadPathsLoop(p, <<>>), LAMBDA l :
        IF l.v = <<>> THEN parse_error(l.p, Msg("expected path", <<>>))
        ELSE Try(EndOfLine(l.p), LAMBDA e :
                 Ok(e.p, [kind |-> "Default", paths |-> l.v])))

\* The include / subninja arms of Parser::read.
ReadOnePath_ToLineEnd(p, kind) ==
    Try(read_path(p), LAMBDA r :
        IF ~r.v.some THEN parse_error(r.p, Msg("expected path", <<>>))
        ELSE Try(EndOfLine(r.p), LAMBDA e :
                 Ok(e.p, [kind |-> kind, path |-> r.v.v])))

ReadOnePath(p, kind) ==
    Try(read_path(p), LAMBDA r :
        IF ~r.v.some THEN parse_error(r.p, Msg("expected path", <<>>))
        ELSE Ok(r.p, [kind |-> kind, path |-> r.v.v]))

\* usize subtraction: an underflow fails the process (overflow checks on;
\* without them the count would wrap modulo 2^64).
usize_sub(a, b) == IF a >= b THEN [ok |-> TRUE, v |-> a - b] ELSE [ok |-> FALSE]

\* read_build, lines 198-206: explicit outputs, then the '|' outputs.
ReadBuildOuts(p) ==
    Try(read_paths_to(p, <<>>), LAMBDA o :
        IF PeekOutside(o.p) THEN Panic(o.p, "peek outside the buffer")
        ELSE LET explicit_outs == Len(o.v)
             IN  Try(IF Scanner_peek(o.p) = "|"
                     THEN read_paths_to(Scanner_next(o.p), o.v)
                     ELSE o,
                     LAMBDA m :
                         Ok(m.p, [outs |-> m.v, explicit_outs |-> explicit_outs])))

\* read_build, lines 217-222: the first '|' has been consumed; before `||`
\* it is pushed back, otherwise the implicit inputs follow.
AfterBar_NoPushBack(q, v) ==
    IF PeekOutside(q) THEN Panic(q, "peek outside the buffer")
    ELSE IF Scanner_peek(q) = "|" THEN Ok(q, v)
    ELSE read_paths_to(q, v)

AfterBar(q, v) ==
    IF PeekOutside(q) THEN Panic(q, "peek outside the buffer")
    ELSE IF Scanner_peek(q) = "|" THEN Ok(Scanner_back(q), v)
    ELSE read_paths_to(q, v)

\* read_build, line 224
ImplicitCount(len, explicit_ins) == usize_sub(len, explicit_ins)

\* read_build, line 231
OrderOnlyCount_SkipImplicit(len, implicit_ins, explicit_ins) ==
    usize_sub(len, explicit_ins)

OrderOnlyCount(len, implicit_ins, explicit_ins) ==
    LET t == usize_sub(len, implicit_ins)
    IN  IF t.ok THEN usize_sub(t.v, explicit_ins) ELSE t

\* read_build, lines 212-231: explicit, '|' implicit and '||' order-only
\* inputs, with the counts taken by subtraction.
ReadBuildIns(p) ==
    Try(read_paths_to(p, <<>>), LAMBDA i :
    IF PeekOutside(i.p) THEN Panic(i.p, "peek outside the buffer")
    ELSE
    LET explicit_ins == Len(i.v)
    IN
    Try(IF Scanner_peek(i.p) = "|" THEN AfterBar(Scanner_next(i.p), i.v) ELSE i,
        LAMBDA m :
    IF PeekOutside(m.p) THEN Panic(m.p, "peek outside the buffer")
    ELSE
    With(ImplicitCount(Len(m.v), explicit_ins), LAMBDA implicit_ins :
    IF ~implicit_ins.ok THEN Panic(m.p, "attempt to subtract with overflow")
    ELSE
    Try(IF Scanner_peek(m.p) = "|"
        THEN Try(Scanner_expect(Scanner_next(m.p), "|"), LAMBDA e :
                 read_paths_to(e.p, m.v))
        ELSE m,
        LAMBDA x :
    With(OrderOnlyCount(Len(x.v), implicit_ins.v, explicit_ins),
         LAMBDA order_only_ins :
    IF ~order_only_ins.ok THEN Panic(x.p, "attempt to subtract with overflow")
    ELSE Ok(x.p, [ins |-> x.v,
                  explicit_ins |-> explicit_ins,
                  implicit_ins |-> implicit_ins.v,
                  order_only_ins |-> order_only_ins.v]))))))

read_build(p) ==
    LET line0 == p.line
    IN  Try(ReadBuildOuts(p), LAMBDA o :
        Try(Scanner_expect(o.p, ":"), LAMBDA c :
        Try(read_ident(Scanner_skip_spaces(c.p)), LAMBDA rule :
        Try(ReadBuildIns(rule.p), LAMBDA i :
        Try(EndOfLine(i.p), LAMBDA e :
        Try(read_scoped_vars(e.p), LAMBDA s :
            Ok(s.p, [kind |-> "Build",
                     rule |-> rule.v,
                     line |-> line0,
                     outs |-> o.v.outs,
                     explicit_outs |-> o.v.explicit_outs,
                     ins |-> i.v.ins,
                     explicit_ins |-> i.v.explicit_ins,
                     implicit_ins |-> i.v.implicit_ins,
                     order_only_ins |-> i.v.order_only_ins,
                     vars |-> s.v])))))))

skip_comment_NotConsumed(p) ==
    With(Scanner_read(p), LAMBDA r :
        IF Panicked(r.p) THEN Panic(r.p, r.p.panic)
        ELSE Ok(Scanner_back(r.p), <<>>))

RECURSIVE skip_comment(_)
skip_comment(p) ==
    With(Scanner_read(p), LAMBDA r :
        IF Panicked(r.p) THEN Panic(r.p, r.p.panic)
        ELSE CASE r.c = NUL -> Ok(Scanner_back(r.p), <<>>)
               [] r.c = LF  -> Ok(r.p, <<>>)
               [] OTHER     -> skip_comment(r.p))

\* The assignment arm of Parser::read: the value is evaluated against the
\* eager scope as it stands, then inserted into it.
ReadAssignment_EmptyScope(p, ident) ==
    Try(read_vardef(p), LAMBDA d :
        LET val == EvalString_evaluate(d.v, <<>>)
        IN  Ok([d.p EXCEPT !.vars = Vars_insert(@, ident, val)], None))

ReadAssignment(p, ident) ==
    Try(read_vardef(p), LAMBDA d :
        LET val == EvalString_evaluate(d.v, <<d.p.vars>>)
        IN  Ok([d.p EXCEPT !.vars = Vars_insert(@, ident, val)], None))

\* The match on the identifier in Parser::read: Some(statement), or None
\* after an assignment (the loop goes on).
ReadStatement(p, ident) ==
    LET Stmt(r) == IF r.tag = "Ok" THEN Ok(r.p, Some(r.v)) ELSE r
    IN  CASE ident = Text_rule     -> Stmt(read_rule(p))
          [] ident = Text_build    -> Stmt(read_build(p))
          [] ident = Text_default  -> Stmt(read_default(p))
          [] ident = Text_include  -> Stmt(ReadOnePath(p, "Include"))
          [] ident = Text_subninja -> Stmt(ReadOnePath(p, "Subninja"))
          [] ident = Text_pool     -> Stmt(read_pool(p))
          [] OTHER                 -> ReadAssignment(p, ident)

\* Parser::read, line 95: the whitespace is peeked at, not consumed.
UnexpectedWhitespace_Consumed(p) ==
    parse_error(Scanner_next(p), Msg("unexpected whitespace", <<>>))

UnexpectedWhitespace(p) == parse_error(p, Msg("unexpected whitespace", <<>>))

RECURSIVE ReadLoop(_)

\* Parser::read after the arm of an identifier: a statement or an error is
\* returned; after an assignment the loop goes on.
AfterIdent(s) == IF s.tag = "Ok" /\ ~s.v.some THEN ReadLoop(s.p) ELSE s

ReadLoop(p) ==
    IF Panicked(p) THEN Panic(p, p.panic)
    ELSE LET c == Scanner_peek(p)
         IN  CASE c = OOB -> Panic(p, "peek outside the buffer")
               [] c = NUL -> Ok(p, None)
               [] c \in {LF, CR} -> ReadLoop(Scanner_next(p))
               [] c = "#" -> Try(skip_comment(p), LAMBDA k : ReadLoop(k.p))
               [] c \in {SP, TAB} -> UnexpectedWhitespace(p)
               [] OTHER ->
                    AfterIdent(Try(read_ident(p), LAMBDA i :
                        ReadStatement(Scanner_skip_spaces(i.p), i.v)))

Parser_read(p) == ReadLoop([p EXCEPT !.steps = 0])

Parser_new(b) ==
    [buf |-> b, ofs |-> 0, line |-> 1, vars |-> Vars_default,
     path_buf |-> <<>>, loaded |-> <<>>, steps |-> 0, panic |-> ""]

---------------------------------------------------------------------------
(* The run: a manifest is parsed by calling Parser::read until it reports  *)
(* the end of the input or fails.                                          *)

RECURSIVE Join(_, _)
Join(ls, sep) ==
    IF ls = <<>> THEN <<>>
    ELSE IF Len(ls) = 1 THEN ls[1]
    ELSE ls[1] \o sep \o Join(Tail(ls), sep)

\* The buffer of a manifest: its lines joined, then the sentinel.
BufferOf(ls, sep) == Join(ls, sep) \o <<NUL>>

P == [buf |-> buf, ofs |-> ofs, line |-> line, vars |-> vars,
      path_buf |-> path_buf, loaded |-> loaded, steps |-> steps, panic |-> ""]

Returned(r) == [tag |-> r.tag, v |-> r.v]

Last(s) == s[Len(s)]

\* The caller calls read again only after a statement.
Ready ==
    IF results = <<>> THEN TRUE
    ELSE Last(results).tag = "Ok" /\ Last(results).v.some

InitOn(inp, ls, sep) ==
    LET p == Parser_new(BufferOf(ls, sep))
    IN  /\ input = inp
        /\ lines = ls
        /\ eol = sep
        /\ buf = p.buf
        /\ ofs = p.ofs
        /\ line = p.line
        /\ vars = p.vars
        /\ path_buf = p.path_buf
        /\ loaded = p.loaded
        /\ steps = p.steps
        /\ results = <<>>

---------------------------------------------------------------------------
(* Inputs.  Every family of manifests is written from an abstract shape,   *)
(* kept in input, so that what the parser returns can be compared with     *)
(* what was written.                                                       *)

MaxPaths == 2          \* paths per section of a written build line
MaxBuildTokens == 7    \* tokens after "build " of an arbitrary build line

LineEndings == {<<LF>>, <<CR, LF>>}

SeqsUpTo(S, n) == UNION {[1..k -> S] : k \in 0..n}

Concat(ts) == Join(ts, <<>>)

\* The n paths of a section: the section's letter and the position.
Names(letter, n) == [i \in 1..n |-> <<letter, DigitText[i + 1]>>]

BuildShapes ==
    [kind : {"build"}, nO : 0..MaxPaths, nIO : 0..MaxPaths, nI : 0..MaxPaths,
     nII : 0..MaxPaths, nOO : 0..MaxPaths, spaced : BOOLEAN]

\* build O.. [| IO..] : rule I.. [| II..] [|| OO..]
BuildLine(sh) ==
    LET gap == IF sh.spaced THEN <<SP>> ELSE <<>>
        Section(mark, letter, n) ==
            IF n = 0 THEN <<>>
            ELSE gap \o mark \o gap \o Join(Names(letter, n), <<SP>>)
    IN  Text_build \o <<SP>> \o Join(Names("o", sh.nO), <<SP>>)
        \o Section(<<"|">>, "p", sh.nIO)
        \o gap \o <<":">> \o gap \o <<"c", "c">>
        \o (IF sh.nI = 0 THEN <<>> ELSE <<SP>> \o Join(Names("i", sh.nI), <<SP>>))
        \o Section(<<"|">>, "j", sh.nII)
        \o Section(<<"|", "|">>, "k", sh.nOO)

InitBuild ==
    \E sh \in BuildShapes : \E sep \in LineEndings :
        InitOn(sh, <<BuildLine(sh), <<>>>>, sep)

BuildTokens == {<<"a">>, <<SP>>, <<"|">>, <<":">>}

\* "build ", then any tokens, then the line end.
InitBuildFuzz ==
    \E ts \in SeqsUpTo(BuildTokens, MaxBuildTokens) :
        InitOn([kind |-> "buildfuzz", tokens |-> ts],
               <<Text_build \o <<SP>> \o Concat(ts), <<>>>>, <<LF>>)

MaxLines == 3          \* lines of a manifest written from ManifestLines

\* Logical lines (without their line ending) of every kind of statement.
ManifestLines ==
    { <<>>,
      <<"#", "c">>,
      <<"x", SP, "=", SP, "1">>,
      <<"x", SP, "=", SP, "a", "$">>,
      <<SP, SP, "b">>,
      <<"y", SP, "=", SP, "$", "x", ".", "2">>,
      <<TAB, "q">>,
      Text_default \o <<SP, "a", SP, "b", "$", "x">>,
      Text_build \o <<SP, "o", ":", SP, "c", "c", SP, "i", SP, "|", SP, "j">>,
      Text_build \o <<SP, "o", ":", SP, "c", "c", SP, "i", SP, "$">>,
      <<SP, "v", SP, "=", SP, "$", "i", "n">>,
      Text_rule \o <<SP, "c", "c">>,
      Text_include \o <<SP, "a">>,
      Text_pool \o <<SP, "p">>,
      <<SP>> \o Text_depth \o <<SP, "=", SP, "4">> }

\* tests::test_for_line_endings: the lines joined with "\n" or with "\r\n".
InitLines ==
    \E ls \in SeqsUpTo(ManifestLines, MaxLines) : \E sep \in LineEndings :
        InitOn([kind |-> "lines"], ls, sep)

MaxAssigns == 3        \* assignment lines of a written assignment manifest

\* A written part: a literal text, or a reference `$name` / `${name}`.
Lit(t)         == [kind |-> "lit", s |-> t]
Ref(n, braced) == [kind |-> "ref", s |-> n, braced |-> braced]

PartText(part) ==
    IF part.kind = "lit" THEN part.s
    ELSE IF part.braced THEN <<"$", "{">> \o part.s \o <<"}">>
    ELSE <<"$">> \o part.s

PartsText(parts) == Concat([i \in 1..Len(parts) |-> PartText(parts[i])])

\* The written values: literal, own and other name, bare and braced.
AssignValues ==
    { <<>>,
      <<Lit(<<"1">>)>>,
      <<Ref(<<"a">>, FALSE)>>,
      <<Ref(<<"b">>, TRUE)>>,
      <<Ref(<<"a">>, FALSE), Lit(<<SP, "2">>)>>,
      <<Ref(<<"b">>, TRUE), Lit(<<"1">>)>>,
      <<Ref(<<"b">>, TRUE), Ref(<<"a">>, FALSE)>>,
      <<Lit(<<"1">>), Ref(<<"a">>, TRUE), Ref(<<"b">>, FALSE)>> }

Assignments == [name : {<<"a">>, <<"b">>}, parts : AssignValues]

AssignLine(a) == a.name \o <<SP, "=", SP>> \o PartsText(a.parts)

InitAssign ==
    \E as \in SeqsUpTo(Assignments, MaxAssigns) : \E sep \in LineEndings :
        InitOn([kind |-> "assign", assigns |-> as],
               [i \in 1..Len(as) |-> AssignLine(as[i])] \o <<<<>>>>, sep)

MaxTokens == 2         \* path tokens of a written path list

\* Written path tokens; x may be assigned before the statement, y never is.
PathTokens ==
    { <<Lit(<<"a">>)>>,
      <<Lit(<<"b">>), Ref(<<"x">>, FALSE)>>,
      <<Ref(<<"x">>, TRUE), Lit(<<"c">>)>>,
      <<Ref(<<"x">>, FALSE)>>,
      <<Ref(<<"x">>, FALSE), Ref(<<"x">>, TRUE)>>,
      <<Lit(<<"a">>), Ref(<<"y">>, FALSE)>>,
      <<Ref(<<"y">>, FALSE)>> }

TokenLists == SeqsUpTo(PathTokens, MaxTokens) \ {<<>>}

\* The values assigned to x, in order, before the statement.
Earlier == {<<>>, <<<<"3">>>>, <<<<"1">>, <<"3">>>>}

PathShapes ==
    [kind : {"paths"}, stmt : {"Default", "Build"}, tokens : TokenLists,
     pre : Earlier, post : BOOLEAN]
    \cup
    [kind : {"paths"}, stmt : {"Include", "Subninja"},
     tokens : {<<t>> : t \in PathTokens}, pre : Earlier, post : BOOLEAN]

TokensText(ts) == Join([i \in 1..Len(ts) |-> PartsText(ts[i])], <<SP>>)

PathLines(sh) ==
    [i \in 1..Len(sh.pre) |-> <<"x", SP, "=", SP>> \o sh.pre[i]]
    \o << CASE sh.stmt = "Default"  -> Text_default \o <<SP>> \o TokensText(sh.tokens)
            [] sh.stmt = "Include"  -> Text_include \o <<SP>> \o TokensText(sh.tokens)
            [] sh.stmt = "Subninja" -> Text_subninja \o <<SP>> \o TokensText(sh.tokens)
            [] sh.stmt = "Build"    ->
                 Text_build \o <<SP>> \o TokensText(sh.tokens) \o <<":", SP, "c", "c", SP>>
                 \o TokensText(sh.tokens) >>
    \o (IF sh.post THEN << <<"x", SP, "=", SP, "9">> >> ELSE <<>>)
    \o <<<<>>>>

InitPaths ==
    \E sh \in PathShapes : \E sep \in LineEndings : InitOn(sh, PathLines(sh), sep)

MaxName == 3           \* bytes of a written name
MaxPieces == 3         \* pieces of a written escaped text
MaxIndent == 2         \* leading spaces of a continued line

NameBytes == {"y", "z", ".", "-"}

WrittenNames == SeqsUpTo(NameBytes, MaxName) \ {<<>>}

\* The longest prefix of a name made of simple variable name bytes.
SimplePrefix(n) ==
    LET k == CHOOSE j \in 0..Len(n) :
                /\ \A i \in 1..j : n[i] \in SimpleVarnameChar
                /\ j < Len(n) => n[j + 1] \notin SimpleVarnameChar
    IN  SubSeq(n, 1, k)

NameShapes ==
    [kind : {"names"}, name : WrittenNames, defined : BOOLEAN,
     use : {"bare", "braced", "rule", "pool"}]

\* When defined, the name's simple prefix is "1" and the whole name "5".
NameLines(sh) ==
    LET pre == SimplePrefix(sh.name)
    IN  (IF sh.defined /\ pre # <<>>
         THEN << pre \o <<SP, "=", SP, "1">> >> ELSE <<>>)
        \o (IF sh.defined /\ pre # sh.name
            THEN << sh.name \o <<SP, "=", SP, "5">> >> ELSE <<>>)
        \o << CASE sh.use = "bare"   -> <<"x", SP, "=", SP, "$">> \o sh.name
                [] sh.use = "braced" -> <<"x", SP, "=", SP, "$", "{">> \o sh.name \o <<"}">>
                [] sh.use = "rule"   -> Text_rule \o <<SP>> \o sh.name
                [] sh.use = "pool"   -> Text_pool \o <<SP>> \o sh.name >>
        \o <<<<>>>>

InitNames ==
    \E sh \in NameShapes : \E sep \in LineEndings : InitOn(sh, NameLines(sh), sep)

\* A written piece of an escaped text: a byte, an escape `$c`, or a `$` at
\* the end of the line followed by the indent of the next line.
Esc(c)  == [kind |-> "esc", c |-> c]
Cont(k) == [kind |-> "cont", indent |-> k]

Pieces ==
    {Lit(<<"a">>), Esc(":"), Esc("$"), Esc(SP)} \cup {Cont(k) : k \in 0..MaxIndent}

PieceText(pc, sep) ==
    CASE pc.kind = "lit"  -> pc.s
      [] pc.kind = "esc"  -> <<"$", pc.c>>
      [] pc.kind = "cont" -> <<"$">> \o sep \o [i \in 1..pc.indent |-> SP]

EscapeShapes ==
    [kind : {"escapes"}, pieces : SeqsUpTo(Pieces, MaxPieces),
     where : {"value", "default", "build"}]

EscapeLines(sh, sep) ==
    LET text == Concat([i \in 1..Len(sh.pieces) |-> PieceText(sh.pieces[i], sep)])
    IN  << CASE sh.where = "value"   -> <<"x", SP, "=", SP>> \o text
             [] sh.where = "default" -> Text_default \o <<SP>> \o text
             [] sh.where = "build"   ->
                  Text_build \o <<SP>> \o text \o <<":", SP, "c", "c">>,
           <<>> >>

InitEscapes ==
    \E sh \in EscapeShapes : \E sep \in LineEndings :
        InitOn(sh, EscapeLines(sh, sep), sep)

MaxBytes == 3          \* arbitrary bytes after the start of a manifest

FuzzBytes == {"a", SP, TAB, LF, CR, NUL, "$", "=", "#", ":", "|", "{"}

FuzzStarts ==
    { <<>>,
      <<"x", SP, "=", SP>>,
      Text_build \o <<SP>>,
      Text_default \o <<SP>>,
      Text_include \o <<SP, "a">>,
      Text_rule \o <<SP, "r", LF>> }

\* Any bytes (line ends and embedded zero bytes among them) after a start.
InitFuzz ==
    \E st \in FuzzStarts : \E bs \in SeqsUpTo(FuzzBytes, MaxBytes) :
        InitOn([kind |-> "fuzz"], <<st \o bs>>, <<LF>>)

\* include / subninja, a path (or none), then the rest of the line.
IncludePaths == {<<>>, <<"a">>, <<"b", "c">>}

IncludeRests ==
    {<<>>, <<SP>>, <<SP, "b">>, <<":">>, <<"|">>, <<":", "b">>, <<SP, "|", SP, "b">>}

IncludeShapes ==
    [kind : {"include"}, stmt : {"Include", "Subninja"},
     path : IncludePaths, rest : IncludeRests]

IncludeKeyword(sh) == IF sh.stmt = "Include" THEN Text_include ELSE Text_subninja

IncludeLine(sh) == IncludeKeyword(sh) \o <<SP>> \o sh.path \o sh.rest

InitInclude ==
    \E sh \in IncludeShapes : \E sep \in LineEndings :
        InitOn(sh, <<IncludeLine(sh), <<>>>>, sep)

MaxAttrs == 2          \* attribute lines of a written pool block

\* The written values of an attribute: numbers, a sign, no text, a name, a
\* trailing space, references, and 2^64.
AttrValues ==
    { <<>>,
      <<Lit(<<"4">>)>>,
      <<Lit(<<"0", "7">>)>>,
      <<Lit(<<"+", "4">>)>>,
      <<Lit(<<"-", "4">>)>>,
      <<Lit(<<"a">>)>>,
      <<Lit(<<"4", SP>>)>>,
      <<Ref(<<"x">>, FALSE)>>,
      <<Lit(<<"4">>), Ref(<<"x">>, TRUE)>>,
      <<Lit(<<"1","8","4","4","6","7","4","4","0","7",
              "3","7","0","9","5","5","1","6","1","6">>)>> }

PoolAttrs == [name : {Text_depth, <<"x">>}, parts : AttrValues]

PoolShapes == [kind : {"pool"}, attrs : SeqsUpTo(PoolAttrs, MaxAttrs)]

PoolLines(sh) ==
    << Text_pool \o <<SP, "p">> >>
    \o [i \in 1..Len(sh.attrs) |-> <<SP>> \o AssignLine(sh.attrs[i])]
    \o <<<<>>>>

InitPool ==
    \E sh \in PoolShapes : \E sep \in LineEndings : InitOn(sh, PoolLines(sh), sep)

\* A manifest that ends while a value or a path is being read: after the
\* text, at once ("plain"), inside `${` ("brace"), or just after `$`
\* ("dollar").
EofTexts ==
    { <<>>, <<"a">>, <<"a", SP, "b">>, <<"$", "$">>, <<"$", "{", "b", "}">>,
      <<"$", "b">> }

EofShapes ==
    [kind : {"eof"}, where : {"value", "scoped", "default"}, text : EofTexts,
     cut : {"plain", "brace", "dollar"}]

EofLines(sh) ==
    LET tail == CASE sh.cut = "plain"  -> <<>>
                  [] sh.cut = "brace"  -> <<"$", "{", "a">>
                  [] sh.cut = "dollar" -> <<"$">>
    IN  CASE sh.where = "value"   -> << <<"x", SP, "=", SP>> \o sh.text \o tail >>
          [] sh.where = "scoped"  ->
               << Text_rule \o <<SP, "r">>,
                  <<SP, "c", SP, "=", SP>> \o sh.text \o tail >>
          [] sh.where = "default" -> << Text_default \o <<SP>> \o sh.text \o tail >>

InitEof ==
    \E sh \in EofShapes : \E sep \in LineEndings : InitOn(sh, EofLines(sh), sep)

\* A scoped assignment ` v =` of a rule or build block: the spaces after
\* `=`, then the value, which an escaped line end may continue.
ScopedValues ==
    { << <<>> >>,
      << <<"1">> >>,
      << <<"$", "x">> >>,
      << <<"$", "{", "x", "}">> >>,
      << <<"$", "$">> >>,
      << <<"a", "$", ":", "b">> >>,
      << <<"$">>, <<SP, SP, "b">> >>,
      << <<"$">>, <<>> >> }

ScopedShapes ==
    [kind : {"scoped"}, block : {"rule", "build"}, gap : 0..MaxIndent,
     value : ScopedValues]

ScopedLines(sh) ==
    << IF sh.block = "rule" THEN Text_rule \o <<SP, "r">>
       ELSE Text_build \o <<SP, "o", ":", SP, "r", SP, "i">>,
       <<SP, "v", SP, "=">> \o [k \in 1..sh.gap |-> SP] \o sh.value[1] >>
    \o Tail(sh.value) \o <<<<>>>>

InitScoped ==
    \E sh \in ScopedShapes : \E sep \in LineEndings :
        InitOn(sh, ScopedLines(sh), sep)

\* Assignments of x, then one statement, then perhaps one more assignment
\* of x. The blocks assign x too; the three cut statements end the input
\* inside a value.
FrameStatements ==
    {"rule", "build", "pool", "poolx", "default", "include", "subninja",
     "cut", "cutbrace", "cutscoped"}

FrameCuts == {"cut", "cutbrace", "cutscoped"}

FrameShapes ==
    {sh \in [kind : {"frame"}, stmt : FrameStatements, pre : Earlier,
             post : BOOLEAN] : sh.stmt \in FrameCuts => ~sh.post}

FrameStatement(stmt) ==
    CASE stmt = "rule"      -> << Text_rule \o <<SP, "r">>, <<SP, "x", SP, "=", SP, "7">> >>
      [] stmt = "build"     -> << Text_build \o <<SP, "o", ":", SP, "r", SP, "i">>,
                                  <<SP, "x", SP, "=", SP, "7">> >>
      [] stmt = "pool"      -> << Text_pool \o <<SP, "p">>,
                                  <<SP>> \o Text_depth \o <<SP, "=", SP, "4">> >>
      [] stmt = "poolx"     -> << Text_pool \o <<SP, "p">>, <<SP, "x", SP, "=", SP, "7">> >>
      [] stmt = "default"   -> << Text_default \o <<SP, "a", "$", "x">> >>
      [] stmt = "include"   -> << Text_include \o <<SP, "a">> >>
      [] stmt = "subninja"  -> << Text_subninja \o <<SP, "a">> >>
      [] stmt = "cut"       -> << <<"x", SP, "=", SP, "5">> >>
      [] stmt = "cutbrace"  -> << <<"x", SP, "=", SP, "$", "{", "x">> >>
      [] stmt = "cutscoped" -> << Text_rule \o <<SP, "r">>, <<SP, "x", SP, "=", SP, "7">> >>

FrameLines(sh) ==
    [i \in 1..Len(sh.pre) |-> <<"x", SP, "=", SP>> \o sh.pre[i]]
    \o FrameStatement(sh.stmt)
    \o (IF sh.post THEN << <<"x", SP, "=", SP, "9">> >> ELSE <<>>)
    \o (IF sh.stmt \in FrameCuts THEN <<>> ELSE <<<<>>>>)

InitFrame ==
    \E sh \in FrameShapes : \E sep \in LineEndings : InitOn(sh, FrameLines(sh), sep)

Read ==
    /\ Ready
    /\ \E r \in {Parser_read(P)} :
        /\ ofs' = r.p.ofs
        /\ line' = r.p.line
        /\ vars' = r.p.vars
        /\ path_buf' = r.p.path_buf
        /\ loaded' = r.p.loaded
        /\ steps' = r.p.steps
        /\ results' = Append(results, Returned(r))
    /\ UNCHANGED <<input, lines, eol, buf>>

Next == Read

\* The whole run on a buffer, as the caller drives it: read until the end
\* of the input or a failure.
RECURSIVE RunAll(_, _)
RunAll(p, acc) ==
    With(Parser_read(p), LAMBDA r :
        LET out == Append(acc, Returned(r))
        IN  IF r.tag = "Ok" /\ ~Panicked(r.p) /\ r.v.some
            THEN RunAll(r.p, out)
            ELSE [results |-> out, vars |-> r.p.vars, loaded |-> r.p.loaded])

---------------------------------------------------------------------------
(* The Scanner on its own: any operations, in any order, from any cursor   *)
(* that reads can reach.  results keeps what each operation was called on  *)
(* and what it left; a failure of the process ends the run.                *)

MaxScan == 2           \* bytes of a scanned buffer before the sentinel
MaxOps == 3            \* Scanner operations of a run

ScanBytes == {":", SP, LF, CR}

SkipChars == {SP, CR}          \* skip(' ') in skip_spaces, skip('\r')

ExpectChars == {LF, ":"}       \* expect('\n'), expect(':')

RECURSIVE ReadTimes(_, _)
ReadTimes(p, n) == IF n = 0 THEN p ELSE ReadTimes(Scanner_next(p), n - 1)

InitScanner ==
    \E bs \in SeqsUpTo(ScanBytes, MaxScan) : \E n \in 0..(Len(bs) + 1) :
        LET p == ReadTimes(Parser_new(BufferOf(<<bs>>, <<LF>>)), n)
        IN  /\ input = [kind |-> "scanner"]
            /\ lines = <<bs>>
            /\ eol = <<LF>>
            /\ buf = p.buf
            /\ ofs = p.ofs
            /\ line = p.line
            /\ vars = p.vars
            /\ path_buf = p.path_buf
            /\ loaded = p.loaded
            /\ steps = 0
            /\ results = <<>>

Cursor(p) == [ofs |-> p.ofs, line |-> p.line]

ScanReady ==
    /\ input.kind = "scanner"
    /\ Len(results) < MaxOps
    /\ IF results = <<>> THEN TRUE ELSE Last(results).panic = ""

\* The operation op(ch) left the scanner q and returned ret.
ScanDone(op, ch, q, ret) ==
    /\ ofs' = q.ofs
    /\ line' = q.line
    /\ results' = Append(results, [op |-> op, ch |-> ch, at |-> Cursor(P),
                                   to |-> Cursor(q), ret |-> ret,
                                   panic |-> q.panic])
    /\ UNCHANGED <<input, lines, eol, buf, vars, path_buf, loaded, steps>>

ScanRead ==
    /\ ScanReady
    /\ \E r \in {Scanner_read(P)} : ScanDone("read", "", r.p, r.c)

ScanNext ==
    /\ ScanReady
    /\ ScanDone("next", "", Scanner_next(P), "")

ScanBack ==
    /\ ScanReady
    /\ ScanDone("back", "", Scanner_back(P), "")

ScanSkip ==
    /\ ScanReady
    /\ \E ch \in SkipChars : \E r \in {Scanner_skip(P, ch)} :
          ScanDone("skip", ch, r.p, r.v)

ScanSkipSpaces ==
    /\ ScanReady
    /\ ScanDone("skip_spaces", "", Scanner_skip_spaces(P), "")

ScanExpect ==
    /\ ScanReady
    /\ \E ch \in ExpectChars : \E r \in {Scanner_expect(P, ch)} :
          ScanDone("expect", ch, r.p, Returned(r))

NextScanner ==
    \/ ScanRead
    \/ ScanNext
    \/ ScanBack
    \/ ScanSkip
    \/ ScanSkipSpaces
    \/ ScanExpect

SpecScanner == InitScanner /\ [][NextScanner]_vars_all

\* The cursor under the Scanner's operations and under the parser.
NextCursor ==
    \/ NextScanner
    \/ input.kind = "lines" /\ Read

SpecCursor == (InitScanner \/ InitLines) /\ [][NextCursor]_vars_all

SpecLines == InitLines /\ [][Next]_vars_all

SpecAssign == InitAssign /\ [][Next]_vars_all

SpecPaths == InitPaths /\ [][Next]_vars_all

SpecNames == InitNames /\ [][Next]_vars_all

SpecEscapes == InitEscapes /\ [][Next]_vars_all

SpecManifests == (InitLines \/ InitFuzz) /\ [][Next]_vars_all

\* The caller goes on calling read while it gets statements: weak fairness of
\* Read.  Read is total on a Ready state and appends to results, so
\* ENABLED <<Read>>_vars_all is Ready, and the fairness condition is written
\* with Ready in its place.
ReadFair == []<>~Ready \/ []<><<Read>>_vars_all

SpecManifestsFair == SpecManifests /\ ReadFair

SpecBuild == (InitBuild \/ InitBuildFuzz) /\ [][Next]_vars_all

SpecInclude == InitInclude /\ [][Next]_vars_all

SpecPool == InitPool /\ [][Next]_vars_all

SpecEof == InitEof /\ [][Next]_vars_all

SpecScoped == InitScoped /\ [][Next]_vars_all

SpecFrame == InitFrame /\ [][Next]_vars_all

---------------------------------------------------------------------------
(* Claims *)

Statements ==
    {results[i].v.v : i \in {j \in 1..Len(results) :
                                results[j].tag = "Ok" /\ results[j].v.some}}

Builds == {s \in Statements : s.kind = "Build"}

\* C1: every Build statement that Parser::read returns has
\* explicit_outs <= len(outs) and explicit_ins + implicit_ins +
\* order_only_ins = len(ins), every count >= 0, and no subtraction of
\* read_build underflows.
C1_BuildPartition ==
    /\ \A b \in Builds :
        /\ b.explicit_outs >= 0 /\ b.explicit_outs <= Len(b.outs)
        /\ b.explicit_ins >= 0 /\ b.implicit_ins >= 0 /\ b.order_only_ins >= 0
        /\ b.explicit_ins + b.implicit_ins + b.order_only_ins = Len(b.ins)
    /\ \A i \in 1..Len(results) :
        results[i].tag = "Panic" => results[i].v # "attempt to subtract with overflow"

C1_Witness ==
    \E b \in Builds :
        /\ b.explicit_outs = 1 /\ Len(b.outs) = 2
        /\ b.explicit_ins = 1 /\ b.implicit_ins = 1 /\ b.order_only_ins = 1

\* C2: a written build line `build O.. [| IO..] : rule I.. [| II..]
\* [|| OO..]` is returned as outs = O then IO, ins = I then II then OO, in
\* source order, with the four counts those of the sections.
C2_BuildSections ==
    (input.kind = "build" /\ results # <<>>) =>
        /\ results[1].tag = "Ok" /\ results[1].v.some
        /\ LET b == results[1].v.v
           IN  /\ b.kind = "Build"
               /\ b.rule = <<"c", "c">>
               /\ b.outs = Names("o", input.nO) \o Names("p", input.nIO)
               /\ b.ins = Names("i", input.nI) \o Names("j", input.nII)
                            \o Names("k", input.nOO)
               /\ b.explicit_outs = input.nO
               /\ b.explicit_ins = input.nI
               /\ b.implicit_ins = input.nII
               /\ b.order_only_ins = input.nOO

\* The case of `||` directly after the explicit inputs.
C2_Witness ==
    /\ input.kind = "build" /\ results # <<>>
    /\ input.nI > 0 /\ input.nII = 0 /\ input.nOO = MaxPaths /\ input.nIO > 0
    /\ results[1].tag = "Ok" /\ results[1].v.some
    /\ results[1].v.v.implicit_ins = 0
    /\ results[1].v.v.order_only_ins = MaxPaths

\* What a call returned, without the byte offset of an error (offsets differ
\* between the two line endings by construction).
Outcome(r) == IF r.tag = "Ok" THEN r ELSE [tag |-> r.tag]

Outcomes(rs) == [i \in 1..Len(rs) |-> Outcome(rs[i])]

RunEnded == ~Ready

\* C3: a manifest parsed with every line ending written "\r\n" yields the
\* same sequence of read results and the same eager variable values as the
\* manifest parsed with every line ending written "\n".
C3_LineEndingIndependence ==
    (input.kind = "lines" /\ RunEnded) =>
        LET lf == RunAll(Parser_new(BufferOf(lines, <<LF>>)), <<>>)
        IN  /\ Outcomes(results) = Outcomes(lf.results)
            /\ vars = lf.vars

\* What a written value denotes in a scope: literals as written, a
\* reference replaced by the value of its name, nothing when it has none.
Denote(parts, env) ==
    Concat([i \in 1..Len(parts) |->
              IF parts[i].kind = "lit" THEN parts[i].s
              ELSE IF parts[i].s \in DOMAIN env THEN env[parts[i].s]
              ELSE <<>>])

\* The scope after the written assignments, each evaluated in the scope
\* left by the ones before it.
RECURSIVE ScopeAfter(_, _)
ScopeAfter(as, env) ==
    IF as = <<>> THEN env
    ELSE LET a == Head(as)
             val == Denote(a.parts, env)
         IN  ScopeAfter(Tail(as),
                        [n \in (DOMAIN env) \cup {a.name} |->
                            IF n = a.name THEN val ELSE env[n]])

\* C4: top-level assignments are evaluated eagerly in source order: each
\* stored value is the written value with every reference replaced by the
\* value its name had when the line was read (empty when it had none).
C4_EagerInOrder ==
    (input.kind = "assign" /\ results # <<>>) =>
        /\ results[1] = [tag |-> "Ok", v |-> None]
        /\ vars = ScopeAfter(input.assigns, <<>>)

\* `b = $a` read before `a = 1` leaves b empty, without error; `b = $a 2`
\* read after it gives "1 2".
C4_Witness ==
    /\ input.kind = "assign" /\ results # <<>>
    /\ Len(input.assigns) = 3
    /\ input.assigns[1] = [name |-> <<"b">>, parts |-> <<Ref(<<"a">>, FALSE)>>]
    /\ input.assigns[2] = [name |-> <<"a">>, parts |-> <<Lit(<<"1">>)>>]
    /\ input.assigns[3] = [name |-> <<"b">>,
                           parts |-> <<Ref(<<"a">>, FALSE), Lit(<<SP, "2">>)>>]
    /\ vars = (<<"a">> :> <<"1">>) @@ (<<"b">> :> <<"1", SP, "2">>)

\* The eager scope when the statement of a written path manifest is read.
ScopeBefore ==
    IF input.pre = <<>> THEN <<>> ELSE (<<"x">> :> Last(input.pre))

WrittenPaths == [i \in 1..Len(input.tokens) |-> Denote(input.tokens[i], ScopeBefore)]

\* C5: the paths of default, include, subninja and build are the written
\* tokens with every `$name` / `${name}` replaced by the value the name has
\* in the eager scope when the path is read, in source order.
C5_PathsResolved ==
    (/\ input.kind = "paths" /\ results # <<>>
     /\ \A i \in 1..Len(WrittenPaths) : WrittenPaths[i] # <<>>) =>
        /\ results[1].tag = "Ok" /\ results[1].v.some
        /\ LET st == results[1].v.v
           IN  /\ st.kind = input.stmt
               /\ st.kind = "Default" => st.paths = WrittenPaths
               /\ st.kind \in {"Include", "Subninja"} => st.path = WrittenPaths[1]
               /\ st.kind = "Build" => st.outs = WrittenPaths /\ st.ins = WrittenPaths

\* `x = 1`, `x = 3`, `default a b$x`, `x = 9`: the list is ["a", "b3"].
C5_Witness ==
    /\ input.kind = "paths" /\ input.stmt = "Default" /\ input.post
    /\ input.pre = <<<<"1">>, <<"3">>>>
    /\ Len(results) = 2
    /\ results[1].tag = "Ok" /\ results[1].v.some
    /\ results[1].v.v.paths = <<<<"a">>, <<"b", "3">>>>
    /\ vars[<<"x">>] = <<"9">>

\* C8: a reference to a name absent from the eager scope never makes
\* Parser::read return a ParseError, also when a path token consists only
\* of such a reference.
C8_UnresolvedNeverAnError ==
    input.kind = "paths" => \A i \in 1..Len(results) : results[i].tag # "Err"

\* The written tokens that resolve to no bytes at all.
EmptyTokens == {k \in 1..Len(WrittenPaths) : WrittenPaths[k] = <<>>}

IsExpectedPath(r) == r.tag = "Err" /\ r.v.msg = Msg("expected path", <<>>)

\* C8 (amended): an unresolved reference contributes no bytes and is by
\* itself no error: Parser::read fails on a written path list only when a
\* whole token resolves to no bytes.  Such a token is no path: `default`,
\* `include` and `subninja` on it fail with "expected path", where the
\* token's text ends.
C8_EmptyTokenIsNoPath ==
    (input.kind = "paths" /\ results # <<>>) =>
        /\ (\E i \in 1..Len(results) : results[i].tag = "Err") => EmptyTokens # {}
        /\ (1 \in EmptyTokens /\ input.stmt # "Build") =>
               /\ IsExpectedPath(results[1])
               /\ buf[results[1].v.ofs + 1] \in {SP, LF, CR}
        /\ EmptyTokens = {} => (results[1].tag = "Ok" /\ results[1].v.some)

\* `default a$y $x` with neither name assigned: the list is ["a"].
C8_Witness ==
    /\ input.kind = "paths" /\ input.stmt = "Default" /\ input.pre = <<>>
    /\ input.tokens = << <<Lit(<<"a">>), Ref(<<"y">>, FALSE)>>, <<Ref(<<"x">>, FALSE)>> >>
    /\ results # <<>>
    /\ results[1] = [tag |-> "Ok",
                     v |-> Some([kind |-> "Default", paths |-> <<<<"a">>>>])]

ValueOf(env, n) == IF n \in DOMAIN env THEN env[n] ELSE <<>>

\* C6: a bare `$name` ends at the first byte outside [A-Za-z0-9_-] and the
\* rest is literal text (`$y.z` is y then ".z"; no name byte at all is an
\* error), while a `${...}` reference and an identifier (rule, pool and
\* variable name) keep their dots.
C6_DotAsymmetry ==
    (input.kind = "names" /\ results # <<>>) =>
        LET n    == input.name
            pre  == SimplePrefix(n)
            rest == SubSeq(n, Len(pre) + 1, Len(n))
            env  == IF input.defined
                    THEN (n :> <<"5">>) @@
                         (IF pre # <<>> /\ pre # n THEN (pre :> <<"1">>) ELSE <<>>)
                    ELSE <<>>
            env1 == IF input.defined /\ pre = n THEN (n :> <<"1">>) ELSE env
            r    == results[1]
        IN  CASE input.use = "bare" ->
                   IF pre = <<>>
                   THEN /\ r.tag = "Err"
                        /\ r.v.msg = Msg("failed to scan variable name", <<>>)
                   ELSE /\ r = [tag |-> "Ok", v |-> None]
                        /\ vars[<<"x">>] = ValueOf(env1, pre) \o rest
              [] input.use = "braced" ->
                   /\ r = [tag |-> "Ok", v |-> None]
                   /\ vars[<<"x">>] = ValueOf(env1, n)
              [] input.use = "rule" ->
                   r = [tag |-> "Ok",
                        v |-> Some([kind |-> "Rule", name |-> n,
                                    vars |-> LazyVars_default])]
              [] input.use = "pool" ->
                   r = [tag |-> "Ok",
                        v |-> Some([kind |-> "Pool", name |-> n, depth |-> 0])]

\* `x = $y.z` with y undefined makes x exactly ".z".
C6_Witness ==
    /\ input.kind = "names" /\ input.use = "bare" /\ ~input.defined
    /\ input.name = <<"y", ".", "z">>
    /\ results # <<>>
    /\ <<"x">> \in DOMAIN vars /\ vars[<<"x">>] = <<".", "z">>

\* What the written pieces denote: an escape its one byte, a continuation
\* nothing.
PiecesDenote(pcs) ==
    Concat([i \in 1..Len(pcs) |->
              CASE pcs[i].kind = "lit"  -> pcs[i].s
                [] pcs[i].kind = "esc"  -> <<pcs[i].c>>
                [] pcs[i].kind = "cont" -> <<>>])

HasCont(pcs) == \E i \in 1..Len(pcs) : pcs[i].kind = "cont"

\* C7: in a value and in a path, `$:`, `$$` and `$ ` each contribute their
\* one byte, and `$` before a newline consumes the newline and the leading
\* spaces of the next line and contributes nothing.
C7_Escapes ==
    (/\ input.kind = "escapes" /\ results # <<>>
     /\ HasCont(input.pieces) => eol = <<LF>>) =>
        LET den == PiecesDenote(input.pieces)
            r   == results[1]
        IN  CASE input.where = "value" ->
                   /\ r = [tag |-> "Ok", v |-> None]
                   /\ vars = (<<"x">> :> den)
              [] input.where = "default" ->
                   den # <<>> =>
                       r = [tag |-> "Ok",
                            v |-> Some([kind |-> "Default", paths |-> <<den>>])]
              [] input.where = "build" ->
                   den # <<>> =>
                       /\ r.tag = "Ok" /\ r.v.some
                       /\ r.v.v.outs = <<den>>
                       /\ r.v.v.rule = <<"c", "c">>

\* The path `$:$<newline>  $ ` is ": ".
C7_Witness ==
    /\ input.kind = "escapes" /\ input.where = "default"
    /\ input.pieces = <<Esc(":"), Cont(MaxIndent), Esc(SP)>>
    /\ results # <<>>
    /\ results[1].tag = "Ok" /\ results[1].v.some
    /\ results[1].v.v.paths = <<<<":", SP>>>>

\* Where the buffer's next statement must start, looking from offset o:
\* after the blank lines and the comments that stand there.
RECURSIVE StatementStart(_, _)
StatementStart(b, o) ==
    IF b[o + 1] \in {LF, CR} THEN StatementStart(b, o + 1)
    ELSE IF b[o + 1] = "#"
    THEN LET j == CHOOSE k \in (o + 1)..Len(b) :
                     /\ b[k] \in {LF, NUL}
                     /\ \A i \in (o + 1)..(k - 1) : b[i] \notin {LF, NUL}
         IN  IF b[j] = NUL THEN j - 1 ELSE StatementStart(b, j)
    ELSE o

IsWhitespaceError(r) ==
    r.tag = "Err" /\ r.v.msg = Msg("unexpected whitespace", <<>>)

\* C9: a space or tab where a statement must start makes read return the
\* ParseError "unexpected whitespace" whose offset is the index of that
\* byte, and the cursor stays on it.
C9_UnexpectedWhitespace ==
    /\ [][Ready =>
            LET k == StatementStart(buf, ofs)
            IN  buf[k + 1] \in {SP, TAB} =>
                    /\ IsWhitespaceError(Last(results'))
                    /\ Last(results').v.ofs = k
                    /\ ofs' = k]_vars_all
    /\ [](\A i \in 1..Len(results) :
            IsWhitespaceError(results[i]) =>
                /\ i = Len(results)
                /\ results[i].v.ofs = ofs
                /\ buf[ofs + 1] \in {SP, TAB})

\* A tab after a completed statement and a blank line.
C9_Witness ==
    /\ Len(results) = 2
    /\ results[1].tag = "Ok"
    /\ IsWhitespaceError(results[2])
    /\ buf[ofs + 1] = TAB
    /\ ofs > 0 /\ buf[ofs] = LF /\ buf[ofs - 1] = CR

NoStepLimit ==
    \A i \in 1..Len(results) :
        results[i].tag = "Panic" => results[i].v # "step limit"

\* C10: every call of Parser::read terminates; a call that returns a
\* statement leaves the cursor strictly further; and the calls end, with
\* the end of the input unless a parse error ended them.
C10_Termination ==
    /\ []NoStepLimit
    /\ [][(Last(results').tag = "Ok" /\ Last(results').v.some) => ofs' > ofs]_vars_all
    /\ <>RunEnded
    /\ [](RunEnded => Last(results) = [tag |-> "Ok", v |-> None]
                      \/ Last(results).tag = "Err")

\* Two statements, then the end of the input.
C10_Witness ==
    /\ Len(results) = 3
    /\ results[1].tag = "Ok" /\ results[1].v.some
    /\ results[2].tag = "Ok" /\ results[2].v.some
    /\ results[3] = [tag |-> "Ok", v |-> None]
    /\ steps = 1 /\ ofs = Len(buf) - 1

InternalViolations == {"scanned past end", "back at start"}

\* C11: on a buffer that ends with the sentinel, whatever its bytes, no
\* call of Parser::read up to the first one that returns the end of the
\* input or a ParseError calls Scanner::read at offset = length ("scanned
\* past end") or Scanner::back at offset 0 ("back at start").
C11_NoInternalViolation ==
    \A i \in 1..Len(results) :
        results[i].tag = "Panic" => results[i].v \notin InternalViolations

C11_Witness ==   \* arbitrary bytes, the sentinel itself consumed, a ParseError
    /\ input.kind = "fuzz"
    /\ results # <<>> /\ Last(results).tag = "Err"
    /\ ofs = Len(buf)


\* `include  b` has a path: the shape without one is the keyword followed
\* at once by the line end, `:` or `|`.
IncludeHasPath(sh) ==
    \/ sh.path # <<>>
    \/ Len(sh.rest) > 1 /\ sh.rest[1] = SP /\ is_path_char(sh.rest[2])

IncludePathEnd(sh) == Len(IncludeKeyword(sh)) + 1 + Len(sh.path)

\* C12 (as claimed): an Include / Subninja statement is returned only when
\* the path is followed by the end of the line; with anything else after
\* the path the same call fails with a ParseError.
C12_OnePathThenLineEnd ==
    (input.kind = "include" /\ input.path # <<>> /\ results # <<>>) =>
        IF input.rest = <<>>
        THEN results[1].tag = "Ok" /\ results[1].v.some
        ELSE results[1].tag = "Err"

\* C12 (amended): the call returns the Include / Subninja statement as soon
\* as its one path is read, with the cursor just after the path and
\* without looking at the rest of the line; what follows the path on the
\* line (a second path, `:`, `|`, a space) makes the next call fail with a
\* ParseError; with no path after the keyword the call fails with
\* "expected path".
C12_OnePathThenReturn ==
    (input.kind = "include" /\ results # <<>>) =>
        /\ input.path # <<>> =>
              /\ results[1] = [tag |-> "Ok",
                               v |-> Some([kind |-> input.stmt, path |-> input.path])]
              /\ loaded = <<input.path>>
              /\ Len(results) = 1 => ofs = IncludePathEnd(input)
              /\ Len(results) > 1 =>
                    IF input.rest = <<>>
                    THEN results[2] = [tag |-> "Ok", v |-> None]
                    ELSE results[2].tag = "Err" /\ results[2].v.ofs = IncludePathEnd(input)
        /\ ~IncludeHasPath(input) =>
              /\ IsExpectedPath(results[1])
              /\ loaded = <<>>

C12_Witness ==   \* `include a b`: Include(a), then "unexpected whitespace"
    /\ input.kind = "include" /\ input.stmt = "Include"
    /\ input.path = <<"a">> /\ input.rest = <<SP, "b">>
    /\ Len(results) = 2
    /\ results[1] = [tag |-> "Ok", v |-> Some([kind |-> "Include", path |-> <<"a">>])]
    /\ IsWhitespaceError(results[2])


\* The text of a written attribute value, evaluated against an empty scope.
AttrText(a) == Denote(a.parts, <<>>)

\* A non-negative decimal integer that fits the depth: digits, with an
\* optional `+` before them; up to 19 significant digits always fit a
\* usize, and the one written number of 20 digits is 2^64, which does not.
IsDepthText(t) ==
    LET d == IF t # <<>> /\ Head(t) = "+" THEN Tail(t) ELSE t
    IN  /\ d # <<>>
        /\ \A i \in 1..Len(d) : d[i] \in Digit
        /\ Len(StripZeros(d)) < Len(UsizeMaxText)

DepthTextValue(t) ==
    DecimalValue(IF Head(t) = "+" THEN Tail(t) ELSE t, 0)

DepthLines(attrs) == {i \in 1..Len(attrs) : attrs[i].name = Text_depth}

LastDepth(attrs) ==
    attrs[CHOOSE i \in DepthLines(attrs) : \A j \in DepthLines(attrs) : j <= i]

IsPool(r, depth) ==
    r = [tag |-> "Ok", v |-> Some([kind |-> "Pool", name |-> <<"p">>, depth |-> depth])]

\* C13 (as claimed): a pool block with an attribute other than depth, or
\* with a depth line whose text is not a non-negative decimal integer,
\* makes read return a ParseError; otherwise the Pool's depth is the last
\* depth written, or 0.
C13_EveryDepthChecked ==
    (input.kind = "pool" /\ results # <<>>) =>
        IF \A i \in 1..Len(input.attrs) :
              /\ input.attrs[i].name = Text_depth
              /\ IsDepthText(AttrText(input.attrs[i]))
        THEN IsPool(results[1],
                    IF input.attrs = <<>> THEN 0
                    ELSE DepthTextValue(AttrText(LastDepth(input.attrs))))
        ELSE results[1].tag = "Err"

\* C13 (amended): the only attribute a pool block may name is depth, and
\* of several depth lines only the last is evaluated (against an empty
\* scope) and parsed: the Pool is returned, with that depth (0 without a
\* depth line), exactly when every attribute is depth and the last one's
\* text is a non-negative decimal integer; an earlier depth line is
\* overwritten unread.  Every other block gives a ParseError and no Pool.
C13_LastDepthChecked ==
    (input.kind = "pool" /\ results # <<>>) =>
        LET attrs == input.attrs
        IN  IF \E i \in 1..Len(attrs) : attrs[i].name # Text_depth
            THEN /\ results[1].tag = "Err"
                 /\ results[1].v.msg.text \in {"unexpected pool attribute", "pool depth"}
                 /\ DepthLines(attrs) = {} =>
                        results[1].v.msg.text = "unexpected pool attribute"
            ELSE IF attrs = <<>> THEN IsPool(results[1], 0)
            ELSE IF IsDepthText(AttrText(LastDepth(attrs)))
            THEN IsPool(results[1], DepthTextValue(AttrText(LastDepth(attrs))))
            ELSE /\ results[1].tag = "Err"
                 /\ results[1].v.msg.text = "pool depth"

C13_Witness ==   \* ` depth = a` then ` depth = 07`: Pool with depth 7
    /\ input.kind = "pool"
    /\ input.attrs = << [name |-> Text_depth, parts |-> <<Lit(<<"a">>)>>],
                        [name |-> Text_depth, parts |-> <<Lit(<<"0", "7">>)>>] >>
    /\ results # <<>> /\ IsPool(results[1], 7)


Reads == {i \in 1..Len(results) : results[i].op = "read"}

\* C14 (as claimed): Scanner::read fails the process when the cursor is on
\* the sentinel (offset = length - 1) or past it, and never returns the
\* sentinel.
C14_FailsAtSentinel ==
    input.kind = "scanner" =>
        \A i \in Reads :
            /\ results[i].at.ofs >= Len(buf) - 1 => results[i].panic # ""
            /\ results[i].ret # NUL

\* C14 (amended): Scanner::read fails the process only when the cursor is
\* past the sentinel (offset = length); on the sentinel it returns the
\* sentinel like any other byte and leaves the cursor at offset = length.
C14_FailsPastSentinel ==
    input.kind = "scanner" =>
        \A i \in Reads :
            LET r == results[i]
            IN  IF r.at.ofs < Len(buf)
                THEN /\ r.panic = ""
                     /\ r.ret = buf[r.at.ofs + 1]
                     /\ r.to.ofs = r.at.ofs + 1
                ELSE /\ r.panic = "scanned past end"
                     /\ r.ret = OOB
                     /\ r.to = r.at

C14_Witness ==   \* the sentinel is read, then the next read fails
    /\ input.kind = "scanner"
    /\ \E i \in Reads :
          /\ results[i].at.ofs = Len(buf) - 1 /\ results[i].ret = NUL
          /\ i + 1 \in Reads /\ results[i + 1].panic = "scanned past end"


\* C15: back() un-consumes exactly the character read: a read that
\* succeeds, followed by back(), leaves offset and line as they were before
\* the read, and the read after that returns the same character; also for
\* a newline that follows a carriage return.
C15_BackRestores ==
    input.kind = "scanner" =>
        \A i \in Reads :
            (/\ results[i].panic = ""
             /\ i < Len(results) /\ results[i + 1].op = "back") =>
                /\ results[i + 1].panic = ""
                /\ results[i + 1].to = results[i].at
                /\ (i + 2) \in Reads => results[i + 2].ret = results[i].ret

\* C16: skip(c) and expect(c) on a next character other than c return
\* false / a ParseError at that character's index and leave offset and line
\* as they were; on c they consume exactly that character.
C16_MismatchLeavesCursor ==
    input.kind = "scanner" =>
        \A i \in 1..Len(results) :
            LET r == results[i]
            IN  (r.op \in {"skip", "expect"} /\ r.at.ofs < Len(buf)) =>
                    IF buf[r.at.ofs + 1] = r.ch
                    THEN /\ r.to.ofs = r.at.ofs + 1
                         /\ r.ret = IF r.op = "skip" THEN TRUE
                                    ELSE [tag |-> "Ok", v |-> <<>>]
                    ELSE /\ r.to = r.at
                         /\ IF r.op = "skip" THEN r.ret = FALSE
                            ELSE r.ret.tag = "Err" /\ r.ret.v.ofs = r.at.ofs


IsPrefix(a, b) == Len(a) <= Len(b) /\ SubSeq(b, 1, Len(a)) = a

BuildsReturned ==
    {i \in 1..Len(results) :
        /\ results[i].tag = "Ok" /\ results[i].v.some
        /\ results[i].v.v.kind = "Build"}

\* C17: after every Scanner operation, and after every Parser::read,
\* offset <= buffer length and line = 1 + the number of newlines in
\* buf[0 .. offset); and the line of a returned Build is the 1-based line
\* of the manifest on which its `build` keyword stands.
C17_CursorInvariant ==
    /\ ofs <= Len(buf)
    /\ line = 1 + Cardinality({i \in 1..ofs : buf[i] = LF})
    /\ input.kind = "lines" =>
          \A i \in BuildsReturned :
              LET b == results[i].v.v
              IN  /\ b.line \in 1..Len(lines)
                  /\ IsPrefix(Text_build \o <<SP>>, lines[b.line])
                  /\ b.line <= line
                  /\ \A j \in BuildsReturned : j < i => results[j].v.v.line < b.line

C17_Witness ==   \* a build on the second line of a "\r\n" manifest
    /\ input.kind = "lines" /\ eol = <<CR, LF>>
    /\ \E i \in BuildsReturned : results[i].v.v.line = 2
    /\ line = 3 /\ ofs = Len(buf) - 1


ErrorText(r) == IF r.tag = "Err" THEN r.v.msg.text ELSE r.tag

\* C18 (as claimed): the end of the input met while a value or an escape
\* is being formed is the ParseError "unexpected EOF", also when the
\* sentinel follows a `$` at once.
C18_AlwaysUnexpectedEOF ==
    (input.kind = "eof" /\ results # <<>>) =>
        ErrorText(results[1]) = "unexpected EOF"

\* C18 (amended): the end of the input met before the newline of a value,
\* in a path, or inside an unclosed `${` is the ParseError "unexpected
\* EOF"; a sentinel that follows a `$` at once is the ParseError "failed
\* to scan variable name", at the sentinel's offset.
C18_EOFErrors ==
    (input.kind = "eof" /\ results # <<>>) =>
        /\ Len(results) = 1
        /\ results[1].tag = "Err"
        /\ IF input.cut = "dollar"
           THEN /\ results[1].v.msg = Msg("failed to scan variable name", <<>>)
                /\ results[1].v.ofs = Len(buf) - 1
           ELSE /\ results[1].v.msg = Msg("unexpected EOF", <<>>)
                /\ results[1].v.ofs =
                      IF input.where = "default" /\ input.cut = "plain"
                      THEN Len(buf) - 1 ELSE Len(buf)

C18_Witness ==   \* ` c = a b$` at the end of a rule block
    /\ input.kind = "eof" /\ input.where = "scoped" /\ input.cut = "dollar"
    /\ input.text = <<"a", SP, "b">>
    /\ results # <<>>
    /\ ErrorText(results[1]) = "failed to scan variable name"


\* The EvalStrings read_eval returned for the scoped assignments of a
\* returned rule or build statement.
ScopedEvals(r) ==
    IF r.tag = "Ok" /\ r.v.some /\ r.v.v.kind \in {"Rule", "Build"}
    THEN {r.v.v.vars[i].val : i \in 1..Len(r.v.v.vars)}
    ELSE {}

\* C19: read_eval returns at least one part: every value line read
\* successfully gives an EvalString whose sequence of parts is not empty,
\* also when nothing stands between `=` and the newline.
C19_AtLeastOnePart ==
    (input.kind = "scoped" /\ results # <<>>) =>
        \A e \in ScopedEvals(results[1]) : e # <<>>


\* The tokens of the statement that resolve to at least one byte, in source
\* order; a build statement writes the list twice, as outputs and as inputs.
LoadableTokens ==
    LET ne == SelectSeq(WrittenPaths, LAMBDA t : t # <<>>)
    IN  IF input.stmt = "Build" THEN ne \o ne ELSE ne

StatementPaths(st) ==
    CASE st.kind = "Default" -> st.paths
      [] st.kind \in {"Include", "Subninja"} -> <<st.path>>
      [] st.kind = "Build" -> st.outs \o st.ins

\* C20: Loader::path is invoked once for each path token that resolves to
\* at least one byte, in source order, never with an empty text, each time
\* with the resolved bytes of that token alone; the paths of the returned
\* statement are the results of those invocations in the same order.
C20_LoaderProtocol ==
    input.kind = "paths" =>
        /\ \A i \in 1..Len(loaded) : loaded[i] # <<>>
        /\ IsPrefix(loaded, LoadableTokens)
        /\ (results # <<>> /\ results[1].tag = "Ok") =>
              /\ results[1].v.some
              /\ loaded = LoadableTokens
              /\ StatementPaths(results[1].v.v) = loaded

\* `x = 3`, `build b$x ${x}c: cc b$x ${x}c`: four invocations.
C20_Witness ==
    /\ input.kind = "paths" /\ input.stmt = "Build"
    /\ input.pre = <<<<"3">>>>
    /\ results # <<>> /\ results[1].tag = "Ok"
    /\ loaded = <<<<"b", "3">>, <<"3", "c">>, <<"b", "3">>, <<"3", "c">>>>


\* The statement the first read of a frame manifest returns, by kind; the
\* two pool manifests differ in what the read returns.
FrameReturns(r) ==
    CASE input.stmt \in {"rule", "build"} ->
           /\ r.tag = "Ok" /\ r.v.some
           /\ r.v.v.kind = (IF input.stmt = "rule" THEN "Rule" ELSE "Build")
           /\ r.v.v.vars = <<[key |-> <<"x">>, val |-> <<Literal(<<"7">>)>>]>>
      [] input.stmt = "pool" -> IsPool(r, 4)
      [] input.stmt = "default" ->
           /\ r.tag = "Ok" /\ r.v.some /\ r.v.v.kind = "Default"
      [] input.stmt \in {"include", "subninja"} ->
           /\ r.tag = "Ok" /\ r.v.some
           /\ r.v.v.kind = (IF input.stmt = "include" THEN "Include" ELSE "Subninja")
      [] input.stmt \in FrameCuts \cup {"poolx"} -> r.tag = "Err"

\* C21: the eager scope is changed only by a completely read top-level
\* assignment. After the read of a rule, build, pool, default, include or
\* subninja statement, or of an assignment or block whose value the input
\* ends in, it is the scope the earlier assignments left; the scoped lines
\* are in the statement's own variables; the assignment after the
\* statement is the next change.
C21_EagerScopeFrame ==
    input.kind = "frame" =>
        /\ results = <<>> => vars = Vars_default
        /\ Len(results) = 1 =>
              /\ vars = ScopeBefore
              /\ FrameReturns(results[1])
        /\ Len(results) = 2 =>
              /\ results[2] = [tag |-> "Ok", v |-> None]
              /\ vars = IF input.post
                        THEN Vars_insert(ScopeBefore, <<"x">>, <<"9">>)
                        ELSE ScopeBefore
        /\ Len(results) <= 2

\* `x = 1`, `x = 3`, `build o: r i`, ` x = 7`: the scope keeps x = 3.
C21_Witness ==
    /\ input.kind = "frame" /\ input.stmt = "build"
    /\ input.pre = <<<<"1">>, <<"3">>>>
    /\ Len(results) = 1
    /\ results[1].tag = "Ok"
    /\ vars = (<<"x">> :> <<"3">>)


\* C22: whenever Parser::read has returned, with a statement, the end of
\* the input or a ParseError, the cursor offset is less than the buffer
\* length, and a ParseError carries an offset of at most the sentinel's.
C22_ReturnsInsideBuffer ==
    results # <<>> =>
        /\ ofs < Len(buf)
        /\ Last(results).tag = "Err" => Last(results).v.ofs <= Len(buf) - 1

=============================================================================
